---- MODULE Spec2Model ----
(***************************************************************************)
(* The checkpoint-driven inference pipeline of scripts/run_predict.py:     *)
(* one run of predict(config), one action per statement group, with the    *)
(* collaborators (torch.load, the trainer package, the data modules, the   *)
(* Trainer, the columnar store, the file system) as nondeterministic       *)
(* choices over the outcomes they can produce.                             *)
(***************************************************************************)
EXTENDS Integers, Sequences, FiniteSets, TLC

VARIABLES
    pc,            \* position in predict()
    err,           \* Python exception class that ended the run, "none" otherwise
    io,            \* the collaborator calls made so far, in order
    config,        \* the configuration dict (mutated in place by predict)
    package,       \* names bound in the namespace of the package bascvi.trainer
    EmbeddingTrainer,      \* the attribute returned by getattr, "unbound" before
    checkpoint,    \* the dict returned by torch.load
    pretrained_gene_list,
    n_input,
    n_batch,
    model,         \* the object returned by load_from_checkpoint
    datamodule,    \* the local `datamodule`; the empty dict while unbound
    dataset,       \* row identifiers of the data source, in scan order
    shardOf,       \* shard (worker) of every dataset position
    reported,      \* per worker, the batches it has reported so far
    predictions,   \* the list returned by trainer.predict
    embeddings,    \* the concatenated matrix
    embeddings_df, \* the data frame (columns, rows)
    obs,           \* row identifiers present in the metadata store
    save_path,
    fs             \* output directory: path -> lines written

vars == <<pc, err, io, config, package, EmbeddingTrainer, checkpoint,
          pretrained_gene_list, n_input, n_batch, model, datamodule, dataset,
          shardOf, reported, predictions, embeddings, embeddings_df, obs,
          save_path, fs>>

----------------------------------------------------------------------------
(* Bounds of the model *)

MaxGenes  == 2      \* longest vocabulary, widest px_r; layer 0 is one wider at most
MaxRows   == 2      \* most rows in the data source
MaxShards == 2      \* most parallel workers
BatchSize == 1      \* rows per prediction batch

----------------------------------------------------------------------------
(* Python values *)

EmptyDict == [k \in {} |-> k]

\* d[k] = v on a dict
SetItem(d, k, v) == [x \in DOMAIN d \cup {k} |-> IF x = k THEN v ELSE d[x]]

\* Python's None, where an int is expected (n_batch)
None == -99

\* dict.get(key, None)
Get(d, k) == IF k \in DOMAIN d THEN d[k] ELSE None

\* A path or a text is a sequence of characters.
RECURSIVE LastIndexOf(_, _)
LastIndexOf(s, ch) ==
    IF s = <<>> THEN 0
    ELSE IF s[Len(s)] = ch THEN Len(s)
    ELSE LastIndexOf(SubSeq(s, 1, Len(s) - 1), ch)

\* os.path.basename
basename(p) == SubSeq(p, LastIndexOf(p, "/") + 1, Len(p))

\* os.path.splitext(p)[0]: cut at the last dot of the last component, unless
\* that component starts with its only dots
RECURSIVE LeadingDots(_)
LeadingDots(s) == IF s # <<>> /\ s[1] = "." THEN 1 + LeadingDots(Tail(s)) ELSE 0

splitext_root(p) ==
    LET sep == LastIndexOf(p, "/")
        dot == LastIndexOf(p, ".")
    IN  IF dot > sep /\ dot > sep + LeadingDots(SubSeq(p, sep + 1, Len(p)))
        THEN SubSeq(p, 1, dot - 1)
        ELSE p

\* os.path.join(a, b)
path_join(a, b) ==
    IF b # <<>> /\ b[1] = "/" THEN b
    ELSE IF a = <<>> \/ a[Len(a)] = "/" THEN a \o b
    ELSE a \o <<"/">> \o b

\* str.split(",\n")
RECURSIVE SplitFrom(_, _, _)
SplitFrom(s, i, cur) ==
    IF i > Len(s) THEN <<cur>>
    ELSE IF i < Len(s) /\ s[i] = "," /\ s[i + 1] = "\n"
         THEN <<cur>> \o SplitFrom(s, i + 2, <<>>)
         ELSE SplitFrom(s, i + 1, Append(cur, s[i]))

split_comma_newline(s) == SplitFrom(s, 1, <<>>)

\* str.strip('"')
RECURSIVE lstrip(_, _)
lstrip(s, ch) == IF s # <<>> /\ s[1] = ch THEN lstrip(Tail(s), ch) ELSE s

RECURSIVE rstrip(_, _)
rstrip(s, ch) ==
    IF s # <<>> /\ s[Len(s)] = ch THEN rstrip(SubSeq(s, 1, Len(s) - 1), ch) ELSE s

strip(s, ch) == rstrip(lstrip(s, ch), ch)

\* the parse of the fallback list file
ParseGeneListFile(text) ==
    LET parts == split_comma_newline(text)
    IN  [i \in 1..Len(parts) |-> strip(parts[i], "\"")]

----------------------------------------------------------------------------
(* The inputs of a run *)

DefaultModuleName == "bascvi_trainer"
DefaultClassName  == "BAScVITrainer"

\* submodules of the package bascvi.trainer that exist
Submodules == {"bascvi_trainer"}

TrainerModuleNames == {"bascvi_trainer", "nosuch_trainer"}
TrainerClassNames  == {"BAScVITrainer", "NoSuchTrainer"}

RecognisedTags == {"TileDBSomaIterDataModule", "EmbDatamodule", "AnnDataDataModule"}
ClassNameTags  == RecognisedTags \cup {"ZarrDataModule"}

CheckpointPaths == { <<"c", "/", "m", ".", "k">>, <<"m", ".", "v", ".", "k">> }
RunSaveDir      == <<"o">>
UserOptions     == [soma_experiment_uri |-> "soma://exp"]

\* a vocabulary of n feature names
Vocabulary(n) == [i \in 1..n |-> <<"g", i>>]

\* the optional key k, with a value of S when present
Optional(k, S) == {EmptyDict} \cup {[x \in {k} |-> v] : v \in S}

\* f and g, two dicts of disjoint keys
Merge(f, g) == [x \in DOMAIN f \cup DOMAIN g |-> IF x \in DOMAIN f THEN f[x] ELSE g[x]]

DatamoduleBlocks ==
    { Merge(c, o) : c \in Optional("class_name", ClassNameTags),
                    o \in Optional("options", {UserOptions}) }

Configs ==
    { Merge(Merge(Merge(p, s), Merge(m, c)), d) :
        p \in Optional("pretrained_model_path", CheckpointPaths),
        s \in Optional("run_save_dir", {RunSaveDir}),
        m \in Optional("trainer_module_name", TrainerModuleNames \ {DefaultModuleName}),
        c \in Optional("trainer_class_name", TrainerClassNames \ {DefaultClassName}),
        d \in Optional("datamodule", DatamoduleBlocks) }

\* checkpoints: hyper_parameters with or without gene_list, and the two
\* tensors of state_dict by their shapes
Checkpoints ==
    { [hyper_parameters |-> h,
       state_dict |-> [px_r |-> <<p>>, Layer_0_weight |-> <<1, w>>]] :
        h \in Optional("gene_list", {Vocabulary(n) : n \in 1..MaxGenes}),
        p \in 1..MaxGenes,
        w \in 1..(MaxGenes + 1) }

\* contents the fallback list file may have
FallbackFiles ==
    { <<"\"", "a", "\"">>,
      <<"\"", "a", "\"", ",", "\n", "\"", "b", "\"">>,
      <<"\"", "a", "\"", ",", "\n", "\"", "b", "\"", "\n">> }

----------------------------------------------------------------------------
(* The spec's error taxonomy for the exceptions the run can end in *)

ErrorKind(e) ==
    CASE e = "ValueError"      -> "ConfigurationError"
      [] e = "AttributeError"  -> "ResolutionError"
      [] e = "AssertionError"  -> "SchemaMismatch"
      [] e = "OSError"         -> "IOFailure"
      [] OTHER                 -> "Crash"

Raise(e) == pc' = "error" /\ err' = e

TypeOK ==
    /\ pc \in {"check_config", "resolve", "load_checkpoint", "gene_list", "schema",
               "n_batch", "load_model", "inject", "default_tag", "dispatch",
               "setup", "predict", "gather", "cat", "frame", "join", "save_path",
               "write", "done", "error"}
    /\ err \in {"none", "ValueError", "AttributeError", "AssertionError", "OSError",
                "KeyError", "UnboundLocalError", "RuntimeError", "TypeError"}
    /\ (pc = "error") <=> (err # "none")

Init ==
    /\ pc = "check_config"
    /\ err = "none"
    /\ io = <<>>
    /\ config \in Configs
    /\ package \in SUBSET {DefaultClassName}
    /\ EmbeddingTrainer = "unbound"
    /\ checkpoint = EmptyDict
    /\ pretrained_gene_list = <<>>
    /\ n_input = None
    /\ n_batch = None
    /\ model = EmptyDict
    /\ datamodule = EmptyDict
    /\ dataset = <<>>
    /\ shardOf = <<>>
    /\ reported = <<>>
    /\ predictions = <<>>
    /\ embeddings = <<>>
    /\ embeddings_df = EmptyDict
    /\ obs = {}
    /\ save_path = <<>>
    /\ fs = EmptyDict

----------------------------------------------------------------------------
(* predict(), lines 22-44: configuration check, trainer resolution,         *)
(* checkpoint introspection, model load                                    *)

\* CheckConfig without the test of line 22
CheckConfig_Unchecked ==
    /\ pc = "check_config"
    /\ pc' = "resolve"
    /\ UNCHANGED <<err, io, config, package, EmbeddingTrainer, checkpoint,
                   pretrained_gene_list, n_input, n_batch, model, datamodule,
                   dataset, shardOf, reported, predictions, embeddings,
                   embeddings_df, obs, save_path, fs>>

\* line 22-23
CheckConfig ==
    /\ pc = "check_config"
    /\ IF "pretrained_model_path" \notin DOMAIN config
       THEN Raise("ValueError")
       ELSE pc' = "resolve" /\ err' = err
    /\ UNCHANGED <<io, config, package, EmbeddingTrainer, checkpoint,
                   pretrained_gene_list, n_input, n_batch, model, datamodule,
                   dataset, shardOf, reported, predictions, embeddings,
                   embeddings_df, obs, save_path, fs>>

\* the fromlist entry of line 26
ModuleName(c) ==
    IF "trainer_module_name" \in DOMAIN c THEN c["trainer_module_name"]
    ELSE DefaultModuleName

\* the attribute name of line 27
ClassName(c) ==
    IF "trainer_class_name" \in DOMAIN c THEN c["trainer_class_name"]
    ELSE DefaultClassName

\* __import__("bascvi.trainer", ..., [name], 0) returns the package; a fromlist
\* entry that is an existing submodule is imported and bound in the package
\* namespace, one that is no submodule is skipped without an error
ImportFromlist(ns, name) == IF name \in Submodules THEN ns \cup {name} ELSE ns

\* line 26-27
ResolveTrainer ==
    /\ pc = "resolve"
    /\ LET module == ImportFromlist(package, ModuleName(config))
       IN  /\ package' = module
           /\ io' = Append(io, "import_trainer")
           /\ IF ClassName(config) \in module
              THEN /\ EmbeddingTrainer' = ClassName(config)
                   /\ pc' = "load_checkpoint" /\ err' = err
              ELSE /\ Raise("AttributeError")
                   /\ UNCHANGED EmbeddingTrainer
    /\ UNCHANGED <<config, checkpoint, pretrained_gene_list, n_input, n_batch,
                   model, datamodule, dataset, shardOf, reported, predictions,
                   embeddings, embeddings_df, obs, save_path, fs>>

\* line 30
LoadCheckpoint ==
    /\ pc = "load_checkpoint"
    /\ io' = Append(io, "torch_load")
    /\ \/ Raise("OSError") /\ UNCHANGED checkpoint
       \/ /\ checkpoint' \in Checkpoints
          /\ pc' = "gene_list" /\ err' = err
    /\ UNCHANGED <<config, package, EmbeddingTrainer, pretrained_gene_list,
                   n_input, n_batch, model, datamodule, dataset, shardOf,
                   reported, predictions, embeddings, embeddings_df, obs,
                   save_path, fs>>

\* line 31-40
GeneList ==
    /\ pc = "gene_list"
    /\ IF "gene_list" \notin DOMAIN checkpoint["hyper_parameters"]
       THEN /\ io' = Append(io, "open_gene_list_file")
            /\ \/ Raise("OSError") /\ UNCHANGED pretrained_gene_list
               \/ \E text \in FallbackFiles :
                    /\ pretrained_gene_list' = ParseGeneListFile(text)
                    /\ pc' = "schema" /\ err' = err
       ELSE /\ pretrained_gene_list' = checkpoint["hyper_parameters"]["gene_list"]
            /\ pc' = "schema" /\ err' = err
            /\ UNCHANGED io
    /\ UNCHANGED <<config, package, EmbeddingTrainer, checkpoint, n_input,
                   n_batch, model, datamodule, dataset, shardOf, reported,
                   predictions, embeddings, embeddings_df, obs, save_path, fs>>

\* SchemaCheck without the assert of line 42
SchemaCheck_NoAssert ==
    /\ pc = "schema"
    /\ n_input' = checkpoint["state_dict"]["px_r"][1]
    /\ pc' = "n_batch"
    /\ UNCHANGED <<err, io, config, package, EmbeddingTrainer, checkpoint,
                   pretrained_gene_list, n_batch, model, datamodule, dataset,
                   shardOf, reported, predictions, embeddings, embeddings_df,
                   obs, save_path, fs>>

\* line 41-42
SchemaCheck ==
    /\ pc = "schema"
    /\ n_input' = checkpoint["state_dict"]["px_r"][1]
    /\ IF n_input' = Len(pretrained_gene_list)
       THEN pc' = "n_batch" /\ err' = err
       ELSE Raise("AssertionError")
    /\ UNCHANGED <<io, config, package, EmbeddingTrainer, checkpoint,
                   pretrained_gene_list, n_batch, model, datamodule, dataset,
                   shardOf, reported, predictions, embeddings, embeddings_df,
                   obs, save_path, fs>>

\* InferNBatch with the difference clamped at zero
InferNBatch_Clamped ==
    /\ pc = "n_batch"
    /\ LET d == checkpoint["state_dict"]["Layer_0_weight"][2] - n_input
       IN  n_batch' = IF d < 0 THEN 0 ELSE d
    /\ pc' = "load_model"
    /\ UNCHANGED <<err, io, config, package, EmbeddingTrainer, checkpoint,
                   pretrained_gene_list, n_input, model, datamodule, dataset,
                   shardOf, reported, predictions, embeddings, embeddings_df,
                   obs, save_path, fs>>

\* line 43
InferNBatch ==
    /\ pc = "n_batch"
    /\ n_batch' = checkpoint["state_dict"]["Layer_0_weight"][2] - n_input
    /\ pc' = "load_model"
    /\ UNCHANGED <<err, io, config, package, EmbeddingTrainer, checkpoint,
                   pretrained_gene_list, n_input, model, datamodule, dataset,
                   shardOf, reported, predictions, embeddings, embeddings_df,
                   obs, save_path, fs>>

\* the model_args mapping a loaded model may expose: without n_batch, with
\* the override it was loaded with, or with the value of its own
\* hyper-parameters
ModelArgs(override) ==
    {EmptyDict, [n_batch |-> override], [n_batch |-> override + 1]}

\* line 44
LoadModel ==
    /\ pc = "load_model"
    /\ IF "run_save_dir" \notin DOMAIN config
       THEN Raise("KeyError") /\ UNCHANGED <<io, model>>
       ELSE /\ io' = Append(io, "load_from_checkpoint")
            /\ \/ Raise("RuntimeError") /\ UNCHANGED model
               \/ \E args \in ModelArgs(n_batch) :
                    /\ model' = [class |-> EmbeddingTrainer,
                                 root_dir |-> config["run_save_dir"],
                                 n_input |-> n_input, n_batch |-> n_batch,
                                 model_args |-> args]
                    /\ pc' = "inject" /\ err' = err
    /\ UNCHANGED <<config, package, EmbeddingTrainer, checkpoint,
                   pretrained_gene_list, n_input, n_batch, datamodule, dataset,
                   shardOf, reported, predictions, embeddings, embeddings_df,
                   obs, save_path, fs>>

----------------------------------------------------------------------------
(* predict(), lines 46-67: the data source                                 *)

\* line 48 and 50: config["datamodule"]["options"][k] = v, twice
InjectOptions ==
    /\ pc = "inject"
    /\ IF "datamodule" \notin DOMAIN config
          \/ "options" \notin DOMAIN config["datamodule"]
       THEN Raise("KeyError") /\ UNCHANGED config
       ELSE LET dm   == config["datamodule"]
                opt1 == SetItem(dm["options"], "pretrained_gene_list",
                                pretrained_gene_list)
                opt2 == SetItem(opt1, "pretrained_batch_size",
                                Get(model["model_args"], "n_batch"))
            IN  /\ config' = SetItem(config, "datamodule",
                                     SetItem(dm, "options", opt2))
                /\ pc' = "default_tag" /\ err' = err
    /\ UNCHANGED <<io, package, EmbeddingTrainer, checkpoint,
                   pretrained_gene_list, n_input, n_batch, model, datamodule,
                   dataset, shardOf, reported, predictions, embeddings,
                   embeddings_df, obs, save_path, fs>>

\* line 52-53
DefaultTag ==
    /\ pc = "default_tag"
    /\ config' = IF "class_name" \notin DOMAIN config["datamodule"]
                 THEN SetItem(config, "datamodule",
                              SetItem(config["datamodule"], "class_name",
                                      "TileDBSomaIterDataModule"))
                 ELSE config
    /\ pc' = "dispatch"
    /\ UNCHANGED <<err, io, package, EmbeddingTrainer, checkpoint,
                   pretrained_gene_list, n_input, n_batch, model, datamodule,
                   dataset, shardOf, reported, predictions, embeddings,
                   embeddings_df, obs, save_path, fs>>

\* the data source built from the options: X(**options)
Construct(tag, options) == [class_name |-> tag, options |-> options, stage |-> "none"]

\* line 55-63: an if/elif chain without an else
Dispatch ==
    /\ pc = "dispatch"
    /\ LET tag == config["datamodule"]["class_name"]
           dm  == config["datamodule"]
       IN  IF tag = "TileDBSomaIterDataModule"
           THEN /\ config' = SetItem(config, "datamodule",
                        SetItem(dm, "options",
                            SetItem(dm["options"], "root_dir", config["run_save_dir"])))
                /\ io' = Append(io, "construct_datamodule")
                /\ \/ Raise("TypeError") /\ UNCHANGED datamodule
                   \/ /\ datamodule' = Construct(tag, config'["datamodule"]["options"])
                      /\ pc' = "setup" /\ err' = err
           ELSE IF tag \in {"EmbDatamodule", "AnnDataDataModule"}
           THEN /\ io' = Append(io, "construct_datamodule")
                /\ \/ Raise("TypeError") /\ UNCHANGED datamodule
                   \/ /\ datamodule' = Construct(tag, dm["options"])
                      /\ pc' = "setup" /\ err' = err
                /\ UNCHANGED config
           ELSE /\ pc' = "setup"
                /\ UNCHANGED <<err, io, config, datamodule>>
    /\ UNCHANGED <<package, EmbeddingTrainer, checkpoint, pretrained_gene_list,
                   n_input, n_batch, model, dataset, shardOf, reported,
                   predictions, embeddings, embeddings_df, obs, save_path, fs>>

\* line 65-67: reading the local `datamodule` fails when no branch bound it
Setup ==
    /\ pc = "setup"
    /\ IF datamodule = EmptyDict
       THEN Raise("UnboundLocalError") /\ UNCHANGED <<io, datamodule, model>>
       ELSE /\ io' = Append(io, "setup")
            /\ \/ Raise("OSError") /\ UNCHANGED <<datamodule, model>>
               \/ /\ datamodule' = [datamodule EXCEPT !.stage = "predict"]
                  /\ model' = SetItem(model, "datamodule", datamodule')
                  /\ pc' = "predict" /\ err' = err
    /\ UNCHANGED <<config, package, EmbeddingTrainer, checkpoint,
                   pretrained_gene_list, n_input, n_batch, dataset, shardOf,
                   reported, predictions, embeddings, embeddings_df, obs,
                   save_path, fs>>

----------------------------------------------------------------------------
(* predict(), lines 69-76: prediction and concatenation                    *)

EmbeddingWidth == 1     \* embedding columns of a prediction row

\* the row the model predicts for the dataset row at position i: the
\* embedding vector, then soma_joinid and the 0-based cell_idx
PredictionRow(ids, i) ==
    [k \in 1..EmbeddingWidth |-> 10 * ids[i] + k] \o <<ids[i], i - 1>>

\* the datasets a data source may scan: the row identifiers, in scan order
Datasets == { [i \in 1..n |-> i] : n \in 0..MaxRows }

\* the ways n rows are sharded over the workers: every worker holds a row
Shardings(n) ==
    IF n = 0 THEN {<<>>}
    ELSE UNION { { f \in [1..n -> 1..w] : \A k \in 1..w : \E i \in 1..n : f[i] = k } :
                 w \in 1..MaxShards }

Workers(sh) == { sh[i] : i \in DOMAIN sh }

\* the dataset positions of worker w, in scan order
RECURSIVE ShardPositions(_, _, _)
ShardPositions(sh, w, i) ==
    IF i > Len(sh) THEN <<>>
    ELSE (IF sh[i] = w THEN <<i>> ELSE <<>>) \o ShardPositions(sh, w, i + 1)

\* a sequence cut into batches of at most BatchSize
RECURSIVE Batches(_)
Batches(s) ==
    IF s = <<>> THEN <<>>
    ELSE IF Len(s) <= BatchSize THEN <<s>>
    ELSE <<SubSeq(s, 1, BatchSize)>> \o Batches(SubSeq(s, BatchSize + 1, Len(s)))

\* the batches worker w has to report, as prediction tensors
WorkerBatches(ids, sh, w) ==
    LET b == Batches(ShardPositions(sh, w, 1))
    IN  [j \in 1..Len(b) |-> [r \in 1..Len(b[j]) |-> PredictionRow(ids, b[j][r])]]

\* line 70 and the call of line 73: the Trainer is built and the scan starts
PredictStart ==
    /\ pc = "predict"
    /\ io' = Append(io, "trainer_predict")
    /\ \E ids \in Datasets : \E sh \in Shardings(Len(ids)) :
         /\ dataset' = ids
         /\ shardOf' = sh
         /\ reported' = [w \in Workers(sh) |-> <<>>]
    /\ pc' = "gather"
    /\ UNCHANGED <<err, config, package, EmbeddingTrainer, checkpoint,
                   pretrained_gene_list, n_input, n_batch, model, datamodule,
                   predictions, embeddings, embeddings_df, obs, save_path, fs>>

\* a worker reports its next batch
WorkerReport(w) ==
    /\ pc = "gather"
    /\ Len(reported[w]) < Len(WorkerBatches(dataset, shardOf, w))
    /\ reported' = [reported EXCEPT ![w] =
                      Append(@, WorkerBatches(dataset, shardOf, w)[Len(@) + 1])]
    /\ UNCHANGED <<pc, err, io, config, package, EmbeddingTrainer, checkpoint,
                   pretrained_gene_list, n_input, n_batch, model, datamodule,
                   dataset, shardOf, predictions, embeddings, embeddings_df, obs,
                   save_path, fs>>

\* a worker meets a malformed batch: the run aborts
WorkerFail(w) ==
    /\ pc = "gather"
    /\ Len(reported[w]) < Len(WorkerBatches(dataset, shardOf, w))
    /\ Raise("RuntimeError")
    /\ UNCHANGED <<io, config, package, EmbeddingTrainer, checkpoint,
                   pretrained_gene_list, n_input, n_batch, model, datamodule,
                   dataset, shardOf, reported, predictions, embeddings,
                   embeddings_df, obs, save_path, fs>>

AllReported ==
    \A w \in DOMAIN reported :
        Len(reported[w]) = Len(WorkerBatches(dataset, shardOf, w))

\* the outputs of workers 1..n, worker after worker
RECURSIVE WorkerThenBatch(_, _)
WorkerThenBatch(rep, n) ==
    IF n = 0 THEN <<>> ELSE WorkerThenBatch(rep, n - 1) \o rep[n]

\* trainer.predict returns (line 73): the blocking gather of the workers
Gather ==
    /\ pc = "gather"
    /\ AllReported
    /\ predictions' = WorkerThenBatch(reported, Cardinality(DOMAIN reported))
    /\ pc' = "cat"
    /\ UNCHANGED <<err, io, config, package, EmbeddingTrainer, checkpoint,
                   pretrained_gene_list, n_input, n_batch, model, datamodule,
                   dataset, shardOf, reported, embeddings, embeddings_df, obs,
                   save_path, fs>>

\* a concatenation that loses the last tensor of several
RECURSIVE torch_cat_short(_)
torch_cat_short(tensors) ==
    IF Len(tensors) <= 1 THEN (IF tensors = <<>> THEN <<>> ELSE Head(tensors))
    ELSE IF Len(tensors) = 2 THEN Head(tensors)
    ELSE Head(tensors) \o torch_cat_short(Tail(tensors))

\* torch.cat(tensors, dim=0)
RECURSIVE torch_cat(_)
torch_cat(tensors) ==
    IF tensors = <<>> THEN <<>> ELSE Head(tensors) \o torch_cat(Tail(tensors))

\* line 74: torch.cat rejects an empty list
Cat ==
    /\ pc = "cat"
    /\ IF predictions = <<>>
       THEN Raise("RuntimeError") /\ UNCHANGED embeddings
       ELSE /\ embeddings' = torch_cat(predictions)
            /\ pc' = "frame" /\ err' = err
    /\ UNCHANGED <<io, config, package, EmbeddingTrainer, checkpoint,
                   pretrained_gene_list, n_input, n_batch, model, datamodule,
                   dataset, shardOf, reported, predictions, embeddings_df, obs,
                   save_path, fs>>

\* line 75: the embedding column names, one per column but the last two
emb_columns(width) == [i \in 1..(width - 2) |-> <<"embedding_", i - 1>>]

\* line 75-76: pd.DataFrame(data, columns) on the default RangeIndex
Frame ==
    /\ pc = "frame"
    /\ embeddings_df' =
          [index_name |-> <<>>,
           index      |-> [i \in 1..Len(embeddings) |-> i - 1],
           columns    |-> emb_columns(Len(embeddings[1]))
                             \o <<<<"soma_joinid">>>> \o <<<<"cell_idx">>>>,
           data       |-> embeddings]
    /\ pc' = "join"
    /\ UNCHANGED <<err, io, config, package, EmbeddingTrainer, checkpoint,
                   pretrained_gene_list, n_input, n_batch, model, datamodule,
                   dataset, shardOf, reported, predictions, embeddings, obs,
                   save_path, fs>>

----------------------------------------------------------------------------
(* predict(), lines 85-98: metadata join and persistence                   *)

\* the metadata columns read next to soma_joinid (line 90)
ObsColumns ==
    << <<"barcode">>, <<"standard_true_celltype">>, <<"authors_celltype">>,
       <<"cell_type_pred">>, <<"cell_subtype_pred">>, <<"sample_name">>,
       <<"study_name">>, <<"batch_name">> >>

\* a missing value of a data frame
NaN == -1

\* the metadata row of identifier id
ObsRow(id) == [c \in 1..Len(ObsColumns) |-> 100 * c + id]

\* obs.read(...).concat().to_pandas().set_index("soma_joinid") of a store
\* holding the identifiers of S, in key order
RECURSIVE KeyOrder(_)
KeyOrder(S) ==
    IF S = {} THEN <<>>
    ELSE LET m == CHOOSE x \in S : \A y \in S : x <= y
         IN  <<m>> \o KeyOrder(S \ {m})

ObsFrame(S) ==
    [index_name |-> <<"soma_joinid">>,
     index      |-> KeyOrder(S),
     columns    |-> ObsColumns,
     data       |-> [i \in 1..Cardinality(S) |-> ObsRow(KeyOrder(S)[i])]]

\* position of a column name
ColumnIndex(df, name) == CHOOSE k \in 1..Len(df.columns) : df.columns[k] = name

\* s without its k-th element
Drop(s, k) == SubSeq(s, 1, k - 1) \o SubSeq(s, k + 1, Len(s))

\* DataFrame.set_index(name)
set_index(df, name) ==
    LET k == ColumnIndex(df, name)
    IN  [index_name |-> name,
         index      |-> [i \in 1..Len(df.data) |-> df.data[i][k]],
         columns    |-> Drop(df.columns, k),
         data       |-> [i \in 1..Len(df.data) |-> Drop(df.data[i], k)]]

\* the rows of `right` whose key is key, in order
RECURSIVE Matches(_, _, _)
Matches(right, key, j) ==
    IF j > Len(right.index) THEN <<>>
    ELSE (IF right.index[j] = key THEN <<right.data[j]>> ELSE <<>>)
         \o Matches(right, key, j + 1)

\* the joined rows of the left rows i.., each as <<key, cells>>
RECURSIVE LeftRows(_, _, _)
LeftRows(left, right, i) ==
    IF i > Len(left.index) THEN <<>>
    ELSE LET m    == Matches(right, left.index[i], 1)
             nans == [c \in 1..Len(right.columns) |-> NaN]
             rows == IF m = <<>>
                     THEN << <<left.index[i], left.data[i] \o nans>> >>
                     ELSE [j \in 1..Len(m) |-> <<left.index[i], left.data[i] \o m[j]>>]
         IN  rows \o LeftRows(left, right, i + 1)

\* the joined rows of an inner join: a left row without a match is dropped
RECURSIVE InnerRows(_, _, _)
InnerRows(left, right, i) ==
    IF i > Len(left.index) THEN <<>>
    ELSE LET m == Matches(right, left.index[i], 1)
         IN  [j \in 1..Len(m) |-> <<left.index[i], left.data[i] \o m[j]>>]
             \o InnerRows(left, right, i + 1)

\* DataFrame.join(other, how="inner")
join_inner(left, right) ==
    LET rows == InnerRows(left, right, 1)
    IN  [index_name |-> left.index_name,
         index      |-> [i \in 1..Len(rows) |-> rows[i][1]],
         columns    |-> left.columns \o right.columns,
         data       |-> [i \in 1..Len(rows) |-> rows[i][2]]]

\* DataFrame.join(other), how="left", on the indexes
join(left, right) ==
    LET rows == LeftRows(left, right, 1)
    IN  [index_name |-> left.index_name,
         index      |-> [i \in 1..Len(rows) |-> rows[i][1]],
         columns    |-> left.columns \o right.columns,
         data       |-> [i \in 1..Len(rows) |-> rows[i][2]]]

JoinedTags == {"TileDBSomaIterDataModule", "EmbDatamodule"}

\* line 86-94
Join ==
    /\ pc = "join"
    /\ IF config["datamodule"]["class_name"] \in JoinedTags
       THEN /\ io' = Append(io, "open_soma_experiment")
            /\ \/ Raise("OSError") /\ UNCHANGED <<obs, embeddings_df>>
               \/ \E S \in SUBSET (1..MaxRows) :
                    /\ obs' = S
                    /\ embeddings_df' =
                          join(set_index(embeddings_df, <<"soma_joinid">>), ObsFrame(S))
                    /\ pc' = "save_path" /\ err' = err
       ELSE /\ pc' = "save_path"
            /\ UNCHANGED <<err, io, obs, embeddings_df>>
    /\ UNCHANGED <<config, package, EmbeddingTrainer, checkpoint,
                   pretrained_gene_list, n_input, n_batch, model, datamodule,
                   dataset, shardOf, reported, predictions, embeddings, save_path,
                   fs>>

\* "pred_embeddings_" and ".tsv", as characters of a path
Prefix == <<"p", "r", "e", "d", "_", "e", "m", "b", "e", "d", "d", "i", "n", "g", "s", "_">>
Suffix == <<".", "t", "s", "v">>

\* line 96
SavePath(c) ==
    path_join(c["run_save_dir"],
              Prefix \o splitext_root(basename(c["pretrained_model_path"])) \o Suffix)

\* a cell as to_csv writes it: a missing value as the empty field
Field(v) == IF v = NaN THEN <<>> ELSE <<v>>

\* the lines of DataFrame.to_csv: the header, then one line per row, each
\* starting with the index
CsvLines(df) ==
    << <<df.index_name>> \o df.columns >>
    \o [i \in 1..Len(df.data) |->
          <<Field(df.index[i])>> \o [k \in 1..Len(df.data[i]) |-> Field(df.data[i][k])]]

\* line 96 and the open of line 97: the file is created empty
ToCsvOpen ==
    /\ pc = "save_path"
    /\ save_path' = SavePath(config)
    /\ io' = Append(io, "open_output")
    /\ \/ Raise("OSError") /\ UNCHANGED fs
       \/ /\ fs' = SetItem(fs, save_path', <<>>)
          /\ pc' = "write" /\ err' = err
    /\ UNCHANGED <<config, package, EmbeddingTrainer, checkpoint,
                   pretrained_gene_list, n_input, n_batch, model, datamodule,
                   dataset, shardOf, reported, predictions, embeddings,
                   embeddings_df, obs>>

\* line 97: the next line reaches the file
ToCsvWrite ==
    /\ pc = "write"
    /\ Len(fs[save_path]) < Len(CsvLines(embeddings_df))
    /\ fs' = [fs EXCEPT ![save_path] =
                Append(@, CsvLines(embeddings_df)[Len(@) + 1])]
    /\ UNCHANGED <<pc, err, io, config, package, EmbeddingTrainer, checkpoint,
                   pretrained_gene_list, n_input, n_batch, model, datamodule,
                   dataset, shardOf, reported, predictions, embeddings,
                   embeddings_df, obs, save_path>>

\* line 97: a write fails (disk full, quota); nothing removes the file
ToCsvFail ==
    /\ pc = "write"
    /\ Len(fs[save_path]) < Len(CsvLines(embeddings_df))
    /\ Raise("OSError")
    /\ UNCHANGED <<io, config, package, EmbeddingTrainer, checkpoint,
                   pretrained_gene_list, n_input, n_batch, model, datamodule,
                   dataset, shardOf, reported, predictions, embeddings,
                   embeddings_df, obs, save_path, fs>>

\* line 97-98: the file is closed and the run ends
ToCsvClose ==
    /\ pc = "write"
    /\ Len(fs[save_path]) = Len(CsvLines(embeddings_df))
    /\ pc' = "done"
    /\ UNCHANGED <<err, io, config, package, EmbeddingTrainer, checkpoint,
                   pretrained_gene_list, n_input, n_batch, model, datamodule,
                   dataset, shardOf, reported, predictions, embeddings,
                   embeddings_df, obs, save_path, fs>>

Next ==
    \/ CheckConfig
    \/ ResolveTrainer
    \/ LoadCheckpoint
    \/ GeneList
    \/ SchemaCheck
    \/ InferNBatch
    \/ LoadModel
    \/ InjectOptions
    \/ DefaultTag
    \/ Dispatch
    \/ Setup
    \/ PredictStart
    \/ \E w \in DOMAIN reported : WorkerReport(w)
    \/ \E w \in DOMAIN reported : WorkerFail(w)
    \/ Gather
    \/ Cat
    \/ Frame
    \/ Join
    \/ ToCsvOpen
    \/ ToCsvWrite
    \/ ToCsvFail
    \/ ToCsvClose

Spec == Init /\ [][Next]_vars

----------------------------------------------------------------------------
(* Properties of predict()                                                 *)

\* the collaborator call x has been made
Did(x) == \E i \in DOMAIN io : io[i] = x

Ended == pc \in {"done", "error"}

\* C1: a configuration without pretrained_model_path ends in a configuration
\* error, and nothing is resolved, loaded, constructed or written in that run.
C1_MissingPathFailsFirst ==
    "pretrained_model_path" \notin DOMAIN config =>
        /\ pc \in {"check_config", "error"}
        /\ pc = "error" => ErrorKind(err) = "ConfigurationError"
        /\ io = <<>>
        /\ EmbeddingTrainer = "unbound"
        /\ checkpoint = EmptyDict /\ model = EmptyDict
        /\ datamodule = EmptyDict /\ fs = EmptyDict

C1_Witness ==
    /\ "pretrained_model_path" \notin DOMAIN config
    /\ pc = "error" /\ err = "ValueError"

UnrecognisedTag(c) ==
    /\ "datamodule" \in DOMAIN c
    /\ "class_name" \in DOMAIN c["datamodule"]
    /\ c["datamodule"]["class_name"] \notin RecognisedTags

\* C2: a configuration whose datamodule.class_name is none of the three
\* recognised tags ends in a ConfigurationError raised before any I/O: the
\* checkpoint is not read, the model not loaded, no data source set up. (An
\* earlier resolution error of the same run is not held against the claim.)
C2_UnrecognisedTagFailsBeforeIO ==
    UnrecognisedTag(config) =>
        /\ ~Did("torch_load")
        /\ ~Did("load_from_checkpoint")
        /\ ~Did("construct_datamodule")
        /\ pc # "done"
        /\ pc = "error" =>
              ErrorKind(err) \in {"ConfigurationError", "ResolutionError"}

\* the schema check of line 41-42 has run
SchemaChecked == n_input # None

\* C3: when the vocabulary length (from hyper_parameters.gene_list or from the
\* fallback list file) differs from the width of vae.px_r, the run ends in a
\* SchemaMismatch and computes nothing more: no n_batch, no model load, no
\* data source, no output.
C3_MismatchStopsTheRun ==
    (SchemaChecked /\ Len(pretrained_gene_list) # checkpoint["state_dict"]["px_r"][1]) =>
        /\ pc = "error" /\ ErrorKind(err) = "SchemaMismatch"
        /\ n_batch = None
        /\ model = EmptyDict /\ ~Did("load_from_checkpoint")
        /\ datamodule = EmptyDict /\ ~Did("construct_datamodule")
        /\ fs = EmptyDict

C3_Witness ==
    /\ pc = "error" /\ err = "AssertionError"
    /\ Did("open_gene_list_file")
    /\ Len(pretrained_gene_list) # checkpoint["state_dict"]["px_r"][1]

\* the inference of line 43 has run
NBatchInferred == n_batch # None

\* C4 as stated: for a checkpoint whose vocabulary length equals the width of
\* px_r, n_input is the vocabulary length, n_batch is the first encoder layer
\* width minus n_input, and n_batch >= 0 also when that layer is narrower
\* than n_input.
C4_NBatchNonNegative ==
    NBatchInferred =>
        /\ n_input = Len(pretrained_gene_list)
        /\ n_batch = checkpoint["state_dict"]["Layer_0_weight"][2] - n_input
        /\ n_batch >= 0

\* C4 amended: n_input is the vocabulary length and n_batch is the first
\* encoder layer width minus n_input, which is non-negative exactly when that
\* layer is at least n_input wide.
C4_NBatchIsWidthDifference ==
    NBatchInferred =>
        /\ n_input = Len(pretrained_gene_list)
        /\ n_batch = checkpoint["state_dict"]["Layer_0_weight"][2] - n_input
        /\ (n_batch >= 0) <=> (checkpoint["state_dict"]["Layer_0_weight"][2] >= n_input)

C4_Witness ==
    /\ pc = "load_model"
    /\ NBatchInferred
    /\ checkpoint["state_dict"]["Layer_0_weight"][2] < n_input
    /\ n_batch < 0

\* C5: when the configured trainer module does not exist, or the configured
\* class does not exist, the run ends in a ResolutionError before the
\* checkpoint is loaded; a missing module is never passed over.
C5_ResolutionFailsFast ==
    (ModuleName(config) \notin Submodules \/ ClassName(config) \notin package) =>
        /\ ~Did("torch_load")
        /\ pc \in {"check_config", "resolve", "error"}
        /\ pc = "error" =>
              ErrorKind(err) \in {"ConfigurationError", "ResolutionError"}

\* the frame has been joined with the metadata (line 94)
Joined == embeddings_df # EmptyDict /\ embeddings_df.index_name = <<"soma_joinid">>

\* position of soma_joinid in a row of the prediction matrix
JoinIdColumn == EmbeddingWidth + 1

\* C6: in the joined variants the join keeps every row of the embedding
\* table, in order; a row whose identifier the metadata lacks carries null
\* metadata fields, one the metadata has carries its metadata; with unique
\* identifiers the persisted table has R data rows under the header.
C6_JoinKeepsEveryRow ==
    Joined =>
        /\ Len(embeddings_df.data) = Len(embeddings)
        /\ \A i \in 1..Len(embeddings) :
              /\ embeddings_df.index[i] = embeddings[i][JoinIdColumn]
              /\ SubSeq(embeddings_df.data[i], 1, EmbeddingWidth + 1)
                    = Drop(embeddings[i], JoinIdColumn)
              /\ SubSeq(embeddings_df.data[i], EmbeddingWidth + 2,
                        Len(embeddings_df.data[i]))
                    = IF embeddings[i][JoinIdColumn] \in obs
                      THEN ObsRow(embeddings[i][JoinIdColumn])
                      ELSE [c \in 1..Len(ObsColumns) |-> NaN]
        /\ pc = "done" =>
              /\ Len(fs[save_path]) = Len(embeddings) + 1
              /\ \A i \in 1..Len(embeddings) :
                    fs[save_path][i + 1][1] = <<embeddings[i][JoinIdColumn]>>

C6_Witness ==
    /\ pc = "done"
    /\ Joined
    /\ Len(embeddings) = MaxRows
    /\ \E i \in 1..Len(embeddings) : embeddings[i][JoinIdColumn] \notin obs
    /\ \E i \in 1..Len(embeddings) : embeddings[i][JoinIdColumn] \in obs

\* C7: whatever step fails, the run ends with the complete output artifact at
\* the save path or with no artifact at all.
C7_NoPartialArtifact ==
    Ended =>
        \/ fs = EmptyDict
        \/ /\ DOMAIN fs = {SavePath(config)}
           /\ fs[SavePath(config)] = CsvLines(embeddings_df)

\* the rows of shard w, in scan order
ShardRows(w) ==
    LET pos == ShardPositions(shardOf, w, 1)
    IN  [r \in 1..Len(pos) |-> PredictionRow(dataset, pos[r])]

RECURSIVE WorkerThenBatchOrder(_)
WorkerThenBatchOrder(n) ==
    IF n = 0 THEN <<>> ELSE WorkerThenBatchOrder(n - 1) \o ShardRows(n)

\* the concatenation of line 74 has run
Concatenated == embeddings # <<>>

C9_OptionalKeysMayBeAbsent ==
    ( /\ "pretrained_model_path" \in DOMAIN config
      /\ "run_save_dir" \in DOMAIN config
      /\ model # EmptyDict ) =>
        err # "KeyError"

\* C10: the data source is constructed with the vocabulary and the n_batch
\* recovered from the checkpoint, and the output root directory is injected
\* for the columnar-streaming tag only.
C10_DataSourceGetsRecoveredValues ==
    datamodule # EmptyDict =>
        /\ datamodule.options["pretrained_gene_list"] = pretrained_gene_list
        /\ datamodule.options["pretrained_batch_size"] = n_batch
        /\ ("root_dir" \in DOMAIN datamodule.options)
              <=> (datamodule.class_name = "TileDBSomaIterDataModule")

====
